---------------------------- MODULE Spec2Model ----------------------------
(***************************************************************************)
(* Model of the Gongle "data theater": the DataTheater engine of           *)
(* web_theatre.rs (encrypt_with_drama, schedule_funeral, check_achievements,*)
(* encryption_race) and the actix handlers of theatre_api.rs that share    *)
(* one engine behind Arc<tokio::sync::Mutex<DataTheater>>.                 *)
(*                                                                         *)
(* Each worker runs one handler at a time; pc[p] is its position in the    *)
(* handler.  Formatted strings are modelled as tuples of their parts.      *)
(***************************************************************************)
EXTENDS Integers, Sequences, FiniteSets, TLC

VARIABLES
    achievements,   \* DataTheater.achievements: the keys of the HashMap
    mutex,          \* AppState.theater mutex: 0 = free, else the holding worker
    pc,             \* per worker: position in its handler
    req,            \* per worker: the request being handled
    loc,            \* per worker: locals of encrypt_with_drama
    resp,           \* per worker: the handler's response
    started,        \* number of requests accepted so far
    calls,          \* per level: the outcome of each finished encrypt_with_drama
                    \* call at that level, in the order the calls finished
    race,           \* the state of one encryption_race call
    funeral         \* the state of one schedule_funeral call made on the engine
                    \* by its owner, without the handler

vars == <<achievements, mutex, pc, req, loc, resp, started, calls, race, funeral>>

-----------------------------------------------------------------------------
(* Bounds of the model *)

\* requests the server accepts when its workers run concurrently
MaxRequests == 2
\* calls made on the engine when one caller uses it, a call at a time
MaxCalls == 3
\* longest participant list of a race
MaxParticipants == 3

\* the workers that handle requests concurrently
Workers == {1, 2}
\* sample values of rng.gen::<u32>() and of the bytes OsRng fills
RandU32 == {0, 1}

\* the (user id, plaintext) pairs clients send; plaintexts are sequences of
\* bytes, here "" and "s3"
Clients == {[user_id |-> 1, data |-> <<>>], [user_id |-> 2, data |-> <<115, 51>>]}

-----------------------------------------------------------------------------
(* EncryptionLevel and the per-level tables *)

EncryptionLevel ==
    {"Basic", "Premium", "Paranoid", "Tinfoil", "Quantum", "Alien", "Eldritch"}

\* the tags a client may send as EncryptRequest.level
LevelTags ==
    {"basic", "premium", "paranoid", "tinfoil", "quantum", "alien", "eldritch",
     "Premium", "xyz"}

\* ParseLevel with the fallback arm going to another level
ParseLevel_OtherFallback(tag) ==
    CASE tag = "basic"    -> "Basic"
      [] tag = "premium"  -> "Premium"
      [] tag = "paranoid" -> "Paranoid"
      [] tag = "tinfoil"  -> "Tinfoil"
      [] tag = "quantum"  -> "Quantum"
      [] tag = "alien"    -> "Alien"
      [] tag = "eldritch" -> "Eldritch"
      [] OTHER            -> "Premium"

\* ParseLevel matching the tag whatever its case
ParseLevel_AnyCase(tag) ==
    CASE tag \in {"basic", "Basic", "BASIC"}          -> "Basic"
      [] tag \in {"premium", "Premium", "PREMIUM"}    -> "Premium"
      [] tag \in {"paranoid", "Paranoid", "PARANOID"} -> "Paranoid"
      [] tag \in {"tinfoil", "Tinfoil", "TINFOIL"}    -> "Tinfoil"
      [] tag \in {"quantum", "Quantum", "QUANTUM"}    -> "Quantum"
      [] tag \in {"alien", "Alien", "ALIEN"}          -> "Alien"
      [] tag \in {"eldritch", "Eldritch", "ELDRITCH"} -> "Eldritch"
      [] OTHER                                        -> "Basic"

\* encrypt_handler, lines 50-59
ParseLevel(tag) ==
    CASE tag = "basic"    -> "Basic"
      [] tag = "premium"  -> "Premium"
      [] tag = "paranoid" -> "Paranoid"
      [] tag = "tinfoil"  -> "Tinfoil"
      [] tag = "quantum"  -> "Quantum"
      [] tag = "alien"    -> "Alien"
      [] tag = "eldritch" -> "Eldritch"
      [] OTHER            -> "Basic"

\* base_delay with the numbers of the points table
base_delay_PointsTable(level) ==
    CASE level = "Basic"    -> 100
      [] level = "Premium"  -> 500
      [] level = "Paranoid" -> 1000
      [] level = "Tinfoil"  -> 2500
      [] level = "Quantum"  -> 5000
      [] level = "Alien"    -> 7500
      [] level = "Eldritch" -> 66666

\* encrypt_with_drama, lines 101-109
base_delay(level) ==
    CASE level = "Basic"    -> 100
      [] level = "Premium"  -> 500
      [] level = "Paranoid" -> 1000
      [] level = "Tinfoil"  -> 2000
      [] level = "Quantum"  -> 3000
      [] level = "Alien"    -> 4000
      [] level = "Eldritch" -> 6666

points_earned(level) ==
    CASE level = "Basic"    -> 100
      [] level = "Premium"  -> 500
      [] level = "Paranoid" -> 1000
      [] level = "Tinfoil"  -> 2500
      [] level = "Quantum"  -> 5000
      [] level = "Alien"    -> 7500
      [] level = "Eldritch" -> 66666

generate_theatrical_password(user_id, level) ==
    CASE level = "Basic"    -> <<"user_", user_id, "_password123">>
      [] level = "Premium"  -> <<"user_", user_id, "_premiumpassword!">>
      [] level = "Paranoid" -> <<"user_", user_id, "_they_are_watching">>
      [] level = "Tinfoil"  -> <<"user_", user_id, "_5g_cant_penetrate_this">>
      [] level = "Quantum"  -> <<"user_", user_id, "_schrodingers_password">>
      [] level = "Alien"    -> <<"user_", user_id, "_area51_clearance">>
      [] level = "Eldritch" -> <<"user_", user_id, "_ph_nglui_mglw_nafh">>

\* format!("{:?}_first", level)
achievement_key(level) == <<level, "_first">>

achievement_label(level) ==
    CASE level = "Basic"    -> "Baby's First Encryption!"
      [] level = "Premium"  -> "Premium Member!"
      [] level = "Paranoid" -> "They're Watching!"
      [] level = "Tinfoil"  -> "Conspiracy Theorist!"
      [] level = "Quantum"  -> "Quantum Entangled!"
      [] level = "Alien"    -> "Area 51 Clearance!"
      [] level = "Eldritch" -> "Madness Embraced! (zalgo)"

None == [some |-> FALSE]
Some(v) == [some |-> TRUE, value |-> v]

Ok(v) == [ok |-> TRUE, value |-> v]
Err(e) == [ok |-> FALSE, error |-> e]

-----------------------------------------------------------------------------
(* The Cipher Unit: derive_key and basic_encrypt *)

\* what one Cipher Unit call draws from OsRng, and which of its fallible steps
\* (if any) returns an error
CipherFails == {"none", "kdf", "aead"}
CipherDraws == [salt : RandU32, nonce : RandU32, fail : CipherFails]

\* PBKDF2, 600000 rounds, 32 bytes of output: a function of (password, salt)
derive_key(password, salt, fail) ==
    IF fail = "kdf" THEN Err("Key derivation failed")
    ELSE Ok(<<"pbkdf2", 600000, password, salt>>)

\* basic_encrypt with a nonce that is not drawn
basic_encrypt_FixedNonce(data, password, d) ==
    LET key == derive_key(password, d.salt, d.fail)
    IN  IF ~key.ok THEN key
        ELSE IF d.fail = "aead" THEN Err("Encryption failed")
        ELSE Ok(<<d.salt, 0, <<"chacha20poly1305", key.value, 0, data>>>>)

\* salt || nonce || ChaCha20-Poly1305(key, nonce, data)
basic_encrypt(data, password, d) ==
    LET key == derive_key(password, d.salt, d.fail)
    IN  IF ~key.ok THEN key
        ELSE IF d.fail = "aead" THEN Err("Encryption failed")
        ELSE Ok(<<d.salt, d.nonce, <<"chacha20poly1305", key.value, d.nonce, data>>>>)

-----------------------------------------------------------------------------
(* The textual stages of the per-level compositions *)

base64_encode(bytes) == <<"base64", bytes>>

theatrical_compress(data) == <<"COMPRESSED[", data, "]DEFINITELY_SMALLER_NOW">>

\* generate_paranoid_padding: 5..19 phrases, each an index into the 7 phrases,
\* joined by newlines; the model draws from these sample outcomes
PaddingDraws == {<<0, 0, 0, 0, 0>>, <<6, 1, 1, 3, 0, 2, 5, 4, 6, 6, 0, 1, 2, 3, 4, 5, 6, 0, 1>>}

RECURSIVE XorBits(_, _, _)
XorBits(a, b, n) ==
    IF n = 0 THEN 0
    ELSE (((a % 2) + (b % 2)) % 2) + 2 * XorBits(a \div 2, b \div 2, n - 1)

\* data.bytes().map(|b| b ^ 42)
alien_xor(data) == [i \in 1..Len(data) |-> XorBits(data[i], 42, 8)]

\* add_zalgo_text: every character followed by 1..3 marks out of 8; the model
\* draws each character's marks from these sample outcomes
ZalgoMarks == {<<0>>, <<7, 3, 7>>}
ZalgoDraws(text) == [1..Len(text) -> ZalgoMarks]
add_zalgo_text(text, marks) == [i \in 1..Len(text) |-> <<text[i], marks[i]>>]

-----------------------------------------------------------------------------
(* encrypt_with_drama, lines 120-185: the match on the level.  The labels   *)
(* are pushed before the Cipher Unit is called; a failing call returns the *)
(* error and drops them.                                                   *)

BasicElements == <<"Applied ROT13 (just kidding)", "Added blockchain dust">>
PremiumElements == <<"Double-encrypted for safety", "Blessed by cyber-monks">>
ParanoidElements ==
    <<"Wrapped in digital tin foil", "Hidden from government satellites",
      "5G-proof coating applied">>
TinfoilElements ==
    <<"Compressed with anxiety", "Encrypted with conspiracy theories",
      "Chemtrail-resistant layer added">>
QuantumElements ==
    <<"Quantum entangled with parallel universe", "Schroedinger's encryption applied",
      "Observed by quantum cats">>
AlienElements ==
    <<"Applied Area 51 technology", "Translated to alien language",
      "UFO cloaking activated">>
\* the Eldritch arm with its last push missing
EldritchElements_TwoPushes ==
    <<"Cthulhu fhtagn (zalgo)", "Reality.exe has stopped responding">>

EldritchElements ==
    <<"Cthulhu fhtagn (zalgo)", "Reality.exe has stopped responding",
      "Sanity check failed (zalgo)">>

\* the result of one arm: the labels pushed and the arm's value
Arm(elements, r) == [elements |-> elements, out |-> r]

\* Composition with the two coin labels of the Quantum arm exchanged
Composition_LabelsExchanged(level, data, password, rnd) ==
    CASE level = "Basic" ->
            Arm(BasicElements, basic_encrypt(data, password, rnd.d1))
      [] level = "Premium" ->
            LET first == basic_encrypt(data, password, rnd.d1) IN
            Arm(PremiumElements,
                IF ~first.ok THEN first
                ELSE basic_encrypt(base64_encode(first.value), password, rnd.d2))
      [] level = "Paranoid" ->
            Arm(ParanoidElements,
                basic_encrypt(<<data, "\n", rnd.padding>>, password, rnd.d1))
      [] level = "Tinfoil" ->
            LET compressed == theatrical_compress(data)
                encrypted == basic_encrypt(compressed, password, rnd.d1) IN
            Arm(TinfoilElements,
                IF ~encrypted.ok THEN encrypted
                ELSE Ok(theatrical_compress(base64_encode(encrypted.value))))
      [] level = "Quantum" ->
            IF rnd.coin
            THEN Arm(Append(QuantumElements, "Data collapsed into encrypted state"),
                     basic_encrypt(data, password, rnd.d1))
            ELSE Arm(Append(QuantumElements, "Data is encrypted AND decrypted!"),
                     basic_encrypt(<<"QUANTUM:">> \o data, password, rnd.d1))
      [] level = "Alien" ->
            Arm(AlienElements,
                basic_encrypt(base64_encode(alien_xor(data)), password, rnd.d1))
      [] level = "Eldritch" ->
            Arm(EldritchElements,
                basic_encrypt(add_zalgo_text(data, rnd.zalgo), password, rnd.d1))

\* rnd: everything the arm draws from the random source
Composition(level, data, password, rnd) ==
    CASE level = "Basic" ->
            Arm(BasicElements, basic_encrypt(data, password, rnd.d1))
      [] level = "Premium" ->
            LET first == basic_encrypt(data, password, rnd.d1) IN
            Arm(PremiumElements,
                IF ~first.ok THEN first
                ELSE basic_encrypt(base64_encode(first.value), password, rnd.d2))
      [] level = "Paranoid" ->
            Arm(ParanoidElements,
                basic_encrypt(<<data, "\n", rnd.padding>>, password, rnd.d1))
      [] level = "Tinfoil" ->
            LET compressed == theatrical_compress(data)
                encrypted == basic_encrypt(compressed, password, rnd.d1) IN
            Arm(TinfoilElements,
                IF ~encrypted.ok THEN encrypted
                ELSE Ok(theatrical_compress(base64_encode(encrypted.value))))
      [] level = "Quantum" ->
            IF rnd.coin
            THEN Arm(Append(QuantumElements, "Data is encrypted AND decrypted!"),
                     basic_encrypt(data, password, rnd.d1))
            ELSE Arm(Append(QuantumElements, "Data collapsed into encrypted state"),
                     basic_encrypt(<<"QUANTUM:">> \o data, password, rnd.d1))
      [] level = "Alien" ->
            Arm(AlienElements,
                basic_encrypt(base64_encode(alien_xor(data)), password, rnd.d1))
      [] level = "Eldritch" ->
            Arm(EldritchElements,
                basic_encrypt(add_zalgo_text(data, rnd.zalgo), password, rnd.d1))

\* the draws an arm makes; draws an arm does not make are fixed so that they
\* add no branching
NoDraw == [salt |-> 0, nonce |-> 0, fail |-> "none"]
ArmDraws(level, data) ==
    [d1 : CipherDraws,
     d2 : IF level = "Premium" THEN CipherDraws ELSE {NoDraw},
     padding : IF level = "Paranoid" THEN PaddingDraws ELSE {<<>>},
     coin : IF level = "Quantum" THEN BOOLEAN ELSE {FALSE},
     zalgo : IF level = "Eldritch" THEN ZalgoDraws(data) ELSE {<<>>}]

-----------------------------------------------------------------------------
(* FuneralType, funeral_handler's defaults and DataTheater::schedule_funeral *)

Viking(longboat_size, burning_arrows) ==
    [variant |-> "Viking", longboat_size |-> longboat_size,
     burning_arrows |-> burning_arrows]
Space(trajectory, escape_velocity) ==
    [variant |-> "Space", trajectory |-> trajectory, escape_velocity |-> escape_velocity]
Quantum(superposition, observer_count) ==
    [variant |-> "Quantum", superposition |-> superposition,
     observer_count |-> observer_count]
Eldritch(tentacles, dimensions_breached, sanity_cost) ==
    [variant |-> "Eldritch", tentacles |-> tentacles,
     dimensions_breached |-> dimensions_breached, sanity_cost |-> sanity_cost]

\* the tags a client may send as FuneralRequest.funeral_type
FuneralTags == {"viking", "space", "quantum", "eldritch", "pirate"}

\* ParseFuneralType with the fallback arm repeating the "viking" arm
ParseFuneralType_SameDefault(tag) ==
    CASE tag = "viking"   -> Viking(50, 100)
      [] tag = "space"    -> Space("Mars", "11.2")
      [] tag = "quantum"  -> Quantum(TRUE, 42)
      [] tag = "eldritch" -> Eldritch(888, 13, -9999)
      [] OTHER            -> Viking(50, 100)

\* funeral_handler, lines 81-103; the escape velocity 11.2 is kept as text
ParseFuneralType(tag) ==
    CASE tag = "viking"   -> Viking(50, 100)
      [] tag = "space"    -> Space("Mars", "11.2")
      [] tag = "quantum"  -> Quantum(TRUE, 42)
      [] tag = "eldritch" -> Eldritch(888, 13, -9999)
      [] OTHER            -> Viking(30, 50)

\* Epitaph interpolating the number of ids instead of the byte count
Epitaph_IdCount(data_ids, ft) ==
    CASE ft.variant = "Viking" ->
            <<"Here lies {} bytes of data. They sailed to digital Valhalla on a {}ft longboat, pierced by {} flaming arrows.",
              Len(data_ids), ft.longboat_size, ft.burning_arrows>>
      [] ft.variant = "Space" ->
            <<"Launched into the {} at {}km/s. Ground Control to Major Data: your circuit's dead, there's something wrong.",
              ft.trajectory, ft.escape_velocity>>
      [] ft.variant = "Quantum" ->
            <<"This data {} in a superposition of deleted and not deleted, observed by {} quantum scientists.",
              IF ft.superposition THEN "exists" ELSE "doesn't exist", ft.observer_count>>
      [] ft.variant = "Eldritch" ->
            <<"Data consumed by {} tentacles across {} dimensions. Sanity cost: {} (zalgo)",
              ft.tentacles, ft.dimensions_breached, ft.sanity_cost>>

\* Epitaph with the byte count in the template of every variant
Epitaph_AllCountBytes(data_ids, ft) ==
    CASE ft.variant = "Viking" ->
            <<"Here lies {} bytes of data. They sailed to digital Valhalla on a {}ft longboat, pierced by {} flaming arrows.",
              Len(data_ids) * 1024, ft.longboat_size, ft.burning_arrows>>
      [] ft.variant = "Space" ->
            <<"Launched into the {} at {}km/s. Ground Control to Major Data: your circuit's dead, there's something wrong.",
              Len(data_ids) * 1024, ft.trajectory, ft.escape_velocity>>
      [] ft.variant = "Quantum" ->
            <<"This data {} in a superposition of deleted and not deleted, observed by {} quantum scientists.",
              Len(data_ids) * 1024,
              IF ft.superposition THEN "exists" ELSE "doesn't exist", ft.observer_count>>
      [] ft.variant = "Eldritch" ->
            <<"Data consumed by {} tentacles across {} dimensions. Sanity cost: {} (zalgo)",
              Len(data_ids) * 1024, ft.tentacles, ft.dimensions_breached, ft.sanity_cost>>

\* the epitaph: the template of the variant and the values it interpolates
Epitaph(data_ids, ft) ==
    CASE ft.variant = "Viking" ->
            <<"Here lies {} bytes of data. They sailed to digital Valhalla on a {}ft longboat, pierced by {} flaming arrows.",
              Len(data_ids) * 1024, ft.longboat_size, ft.burning_arrows>>
      [] ft.variant = "Space" ->
            <<"Launched into the {} at {}km/s. Ground Control to Major Data: your circuit's dead, there's something wrong.",
              ft.trajectory, ft.escape_velocity>>
      [] ft.variant = "Quantum" ->
            <<"This data {} in a superposition of deleted and not deleted, observed by {} quantum scientists.",
              IF ft.superposition THEN "exists" ELSE "doesn't exist", ft.observer_count>>
      [] ft.variant = "Eldritch" ->
            <<"Data consumed by {} tentacles across {} dimensions. Sanity cost: {} (zalgo)",
              ft.tentacles, ft.dimensions_breached, ft.sanity_cost>>

\* ShredPasses with the Space draw moved up by one
ShredPasses_UpByOne(ft, rnd) ==
    CASE ft.variant = "Viking"   -> 35
      [] ft.variant = "Space"    -> rnd.shred + 1
      [] ft.variant = "Quantum"  -> IF rnd.coin THEN 0 ELSE 999
      [] ft.variant = "Eldritch" -> 666

\* rnd.shred is the draw of gen_range(1..100), rnd.coin that of gen_bool(0.5)
ShredPasses(ft, rnd) ==
    CASE ft.variant = "Viking"   -> 35
      [] ft.variant = "Space"    -> rnd.shred
      [] ft.variant = "Quantum"  -> IF rnd.coin THEN 0 ELSE 999
      [] ft.variant = "Eldritch" -> 666

SpecialEffects(ft) ==
    CASE ft.variant = "Viking"   -> <<"fire", "crossed swords", "shield", "sailboat">>
      [] ft.variant = "Space"    -> <<"rocket", "star", "milky way", "astronaut">>
      [] ft.variant = "Quantum"  -> <<"die", "bar chart", "microscope", "question mark">>
      [] ft.variant = "Eldritch" -> <<"octopus", "cyclone", "eye", "spider web">>

\* schedule_funeral scheduling one hour ahead
schedule_funeral_OneHour(user_id, data_ids, funeral_type, rnd) ==
    [ceremony_id |-> <<"FUNERAL-", user_id, "-", rnd.ceremony>>,
     user_id |-> user_id,
     data_ids |-> data_ids,
     funeral_type |-> funeral_type,
     scheduled_time |-> rnd.now + 3600,
     epitaph |-> Epitaph(data_ids, funeral_type),
     shred_passes |-> ShredPasses(funeral_type, rnd),
     special_effects |-> SpecialEffects(funeral_type),
     livestream_url |-> <<"https://gongle.com/funerals/live/", rnd.livestream>>,
     guest_list |-> rnd.guests]

\* schedule_funeral, lines 221-265; rnd.now is the reading of SystemTime::now
schedule_funeral(user_id, data_ids, funeral_type, rnd) ==
    [ceremony_id |-> <<"FUNERAL-", user_id, "-", rnd.ceremony>>,
     user_id |-> user_id,
     data_ids |-> data_ids,
     funeral_type |-> funeral_type,
     scheduled_time |-> rnd.now + 86400,
     epitaph |-> Epitaph(data_ids, funeral_type),
     shred_passes |-> ShredPasses(funeral_type, rnd),
     special_effects |-> SpecialEffects(funeral_type),
     livestream_url |-> <<"https://gongle.com/funerals/live/", rnd.livestream>>,
     guest_list |-> rnd.guests]

\* generate_funeral_guests: 3..6 of the 10 guests, by index; sample outcomes
GuestDraws == {<<0, 1, 2>>, <<9, 4, 7, 1, 0, 3>>}

\* the draws schedule_funeral makes for a funeral type, out of the given
\* shred-pass draws and clock readings
FuneralDraws(ft, shreds, nows) ==
    [ceremony : RandU32,
     shred : IF ft.variant = "Space" THEN shreds ELSE {0},
     coin : IF ft.variant = "Quantum" THEN BOOLEAN ELSE {FALSE},
     livestream : RandU32,
     guests : GuestDraws,
     now : nows]

-----------------------------------------------------------------------------
(* State after construction: DataTheater::new and an idle server *)

\* DataTheater::new sets drama_factor to 1.0 and nothing changes it
drama_factor == 1

NoReq == [kind |-> "none"]
NoLoc == [at |-> "none"]
NoResp == [kind |-> "none"]
RaceIdle == [state |-> "idle"]
FuneralIdle == [state |-> "idle"]

Init ==
    /\ achievements = {}
    /\ mutex = 0
    /\ pc = [p \in Workers |-> "idle"]
    /\ req = [p \in Workers |-> NoReq]
    /\ loc = [p \in Workers |-> NoLoc]
    /\ resp = [p \in Workers |-> NoResp]
    /\ started = 0
    /\ calls = [l \in EncryptionLevel |-> <<>>]
    /\ race = RaceIdle
    /\ funeral = FuneralIdle

\* ApiResponse, as the handlers build it
ApiOk(kind, result) == [kind |-> kind, success |-> TRUE, data |-> result]
ApiError(kind, e) == [kind |-> kind, success |-> FALSE, error |-> e]

-----------------------------------------------------------------------------
(* encrypt_handler and DataTheater::encrypt_with_drama *)

\* a request arrives while fewer than `bound` have been accepted; the handler
\* maps the level tag to an EncryptionLevel
EncryptRequest(p, client, tag, bound) ==
    /\ pc[p] = "idle"
    /\ started < bound
    /\ started' = started + 1
    /\ req' = [req EXCEPT ![p] =
                  [kind |-> "encrypt", user_id |-> client.user_id,
                   data |-> client.data, level |-> tag]]
    /\ loc' = [loc EXCEPT ![p] = [at |-> "handler", level |-> ParseLevel(tag)]]
    /\ resp' = [resp EXCEPT ![p] = NoResp]
    /\ pc' = [pc EXCEPT ![p] = "e_lock"]
    /\ UNCHANGED <<achievements, mutex, calls, race, funeral>>

\* EncryptLock with a lock that excludes nobody
EncryptLock_NoExclusion(p) ==
    /\ pc[p] = "e_lock"
    /\ mutex' = p
    /\ loc' = [loc EXCEPT ![p] =
                  [at |-> "sleep", level |-> loc[p].level,
                   sleep_ms |-> base_delay(loc[p].level) * drama_factor]]
    /\ pc' = [pc EXCEPT ![p] = "e_sleep"]
    /\ UNCHANGED <<achievements, req, resp, started, calls, race, funeral>>

\* state.theater.lock().await, then encrypt_with_drama up to its sleep: the
\* guard stays alive in the handler while the call is suspended
EncryptLock(p) ==
    /\ pc[p] = "e_lock"
    /\ mutex = 0
    /\ mutex' = p
    /\ loc' = [loc EXCEPT ![p] =
                  [at |-> "sleep", level |-> loc[p].level,
                   sleep_ms |-> base_delay(loc[p].level) * drama_factor]]
    /\ pc' = [pc EXCEPT ![p] = "e_sleep"]
    /\ UNCHANGED <<achievements, req, resp, started, calls, race, funeral>>

\* the handler's Err arm: the error goes to the client, the guard is dropped
EncryptFail(p, outcome, e) ==
    /\ resp' = [resp EXCEPT ![p] = ApiError("encrypt", e)]
    /\ calls' = [calls EXCEPT ![loc[p].level] = Append(@, outcome)]
    /\ loc' = [loc EXCEPT ![p] = NoLoc]
    /\ mutex' = 0
    /\ pc' = [pc EXCEPT ![p] = "idle"]

\* the dramatic pause is over: the password, the level's composition and the
\* points (lines 116-196); rnd keeps what the random source returned to the
\* call
EncryptCipher(p) ==
    /\ pc[p] = "e_sleep"
    /\ \E rnd \in ArmDraws(loc[p].level, req[p].data) :
          LET level == loc[p].level
              password == generate_theatrical_password(req[p].user_id, level)
              arm == Composition(level, req[p].data, password, rnd)
          IN  IF arm.out.ok
              THEN /\ loc' = [loc EXCEPT ![p] =
                                 [at |-> "check", level |-> level,
                                  rnd |-> rnd, password |-> password,
                                  encrypted_data |-> arm.out.value,
                                  theatrical_elements |-> arm.elements,
                                  points_earned |-> points_earned(level)]]
                   /\ pc' = [pc EXCEPT ![p] = "e_check"]
                   /\ UNCHANGED <<mutex, resp, calls>>
              ELSE EncryptFail(p, "cipher_error", arm.out.error)
    /\ UNCHANGED <<achievements, req, started, race, funeral>>

\* CheckAchievements looking up a key made of the level and the user id
CheckAchievements_PerUser(p) ==
    /\ pc[p] = "e_check"
    /\ loc' = [loc EXCEPT ![p] =
                  [at |-> "grant", level |-> loc[p].level,
                   rnd |-> loc[p].rnd, password |-> loc[p].password,
                   encrypted_data |-> loc[p].encrypted_data,
                   theatrical_elements |-> loc[p].theatrical_elements,
                   points_earned |-> loc[p].points_earned,
                   found |-> <<loc[p].level, "_first", req[p].user_id>> \in achievements]]
    /\ pc' = [pc EXCEPT ![p] = "e_grant"]
    /\ UNCHANGED <<achievements, mutex, req, resp, started, calls, race, funeral>>

\* check_achievements, line 356: the lookup
CheckAchievements(p) ==
    /\ pc[p] = "e_check"
    /\ loc' = [loc EXCEPT ![p] =
                  [at |-> "grant", level |-> loc[p].level,
                   rnd |-> loc[p].rnd, password |-> loc[p].password,
                   encrypted_data |-> loc[p].encrypted_data,
                   theatrical_elements |-> loc[p].theatrical_elements,
                   points_earned |-> loc[p].points_earned,
                   found |-> achievement_key(loc[p].level) \in achievements]]
    /\ pc' = [pc EXCEPT ![p] = "e_grant"]
    /\ UNCHANGED <<achievements, mutex, req, resp, started, calls, race, funeral>>

\* check_achievements, lines 357-370: the insert and the label; then the
\* elapsed time (SystemTime::elapsed is an error when the clock has stepped
\* back since the call began), the result object, the handler's response and
\* the drop of the guard
EncryptFinish(p) ==
    /\ pc[p] = "e_grant"
    /\ LET level == loc[p].level
           achievement == IF ~loc[p].found THEN Some(achievement_label(level)) ELSE None
       IN  /\ achievements' = IF ~loc[p].found
                              THEN achievements \cup {achievement_key(level)}
                              ELSE achievements
           /\ \E clock_ok \in BOOLEAN, r \in RandU32 :
                 IF clock_ok
                 THEN /\ resp' = [resp EXCEPT ![p] = ApiOk("encrypt",
                            [success |-> TRUE,
                             message |-> <<"Data encrypted with ", level, " level security!">>,
                             data_id |-> <<"GONGLE-", req[p].user_id, "-", r>>,
                             theatrical_elements |-> loc[p].theatrical_elements,
                             points_earned |-> loc[p].points_earned,
                             achievement_unlocked |-> achievement])]
                      /\ calls' = [calls EXCEPT ![level] =
                                     Append(@, IF achievement.some THEN "achievement"
                                               ELSE "no_achievement")]
                      /\ loc' = [loc EXCEPT ![p] = NoLoc]
                      /\ mutex' = 0
                      /\ pc' = [pc EXCEPT ![p] = "idle"]
                 ELSE EncryptFail(p, "clock_error", "second time provided was later than self")
    /\ UNCHANGED <<req, started, race, funeral>>

-----------------------------------------------------------------------------
(* funeral_handler *)

\* the (user id, data ids) pairs clients send
Mourners ==
    {[user_id |-> 1, data_ids |-> <<"a">>], [user_id |-> 2, data_ids |-> <<"a", "b", "c">>]}

\* the draws of gen_range(1..100) and the clock readings the handlers see
HandlerShreds == {1, 99}
HandlerNows == {1000}

\* a request arrives; the handler maps the tag to a FuneralType
FuneralRequest(p, mourner, tag, bound) ==
    /\ pc[p] = "idle"
    /\ started < bound
    /\ started' = started + 1
    /\ req' = [req EXCEPT ![p] =
                  [kind |-> "funeral", user_id |-> mourner.user_id,
                   data_ids |-> mourner.data_ids, funeral_type |-> tag]]
    /\ loc' = [loc EXCEPT ![p] =
                  [at |-> "handler", funeral_type |-> ParseFuneralType(tag)]]
    /\ resp' = [resp EXCEPT ![p] = NoResp]
    /\ pc' = [pc EXCEPT ![p] = "f_lock"]
    /\ UNCHANGED <<achievements, mutex, calls, race, funeral>>

\* state.theater.lock().await
FuneralLock(p) ==
    /\ pc[p] = "f_lock"
    /\ mutex = 0
    /\ mutex' = p
    /\ pc' = [pc EXCEPT ![p] = "f_schedule"]
    /\ UNCHANGED <<achievements, req, loc, resp, started, calls, race, funeral>>

\* FuneralSchedule entering a key into the registry
FuneralSchedule_Grants(p) ==
    /\ pc[p] = "f_schedule"
    /\ \E rnd \in FuneralDraws(loc[p].funeral_type, HandlerShreds, HandlerNows) :
          resp' = [resp EXCEPT ![p] = ApiOk("funeral",
                      schedule_funeral(req[p].user_id, req[p].data_ids,
                                       loc[p].funeral_type, rnd))]
    /\ achievements' = achievements \cup {achievement_key("Basic")}
    /\ loc' = [loc EXCEPT ![p] = NoLoc]
    /\ mutex' = 0
    /\ pc' = [pc EXCEPT ![p] = "idle"]
    /\ UNCHANGED <<req, started, calls, race, funeral>>

\* schedule_funeral (it never suspends and never fails), the response and
\* the drop of the guard
FuneralSchedule(p) ==
    /\ pc[p] = "f_schedule"
    /\ \E rnd \in FuneralDraws(loc[p].funeral_type, HandlerShreds, HandlerNows) :
          resp' = [resp EXCEPT ![p] = ApiOk("funeral",
                      schedule_funeral(req[p].user_id, req[p].data_ids,
                                       loc[p].funeral_type, rnd))]
    /\ loc' = [loc EXCEPT ![p] = NoLoc]
    /\ mutex' = 0
    /\ pc' = [pc EXCEPT ![p] = "idle"]
    /\ UNCHANGED <<achievements, req, started, calls, race, funeral>>

-----------------------------------------------------------------------------
(* DataTheater::schedule_funeral, called by the owner of an engine *)

\* the arguments of the call
UserIds == {1, 2}
DataIdLists == {<<>>, <<"a">>, <<"a", "b", "c">>}
FuneralTypes ==
    {Viking(50, 100), Viking(30, 50), Space("Mars", "11.2"), Space("Sun", "617.5"),
     Quantum(TRUE, 42), Quantum(FALSE, 7), Eldritch(888, 13, -9999), Eldritch(8, 4, -1)}

\* every value of gen_range(1..100), and readings of SystemTime::now in
\* seconds
ShredRange == 1..99
Nows == {0, 1000}

\* schedule_funeral is called
ScheduleCall(user_id, data_ids, funeral_type) ==
    /\ funeral.state = "idle"
    /\ funeral' = [state |-> "called", user_id |-> user_id, data_ids |-> data_ids,
                   funeral_type |-> funeral_type]
    /\ UNCHANGED <<achievements, mutex, pc, req, loc, resp, started, calls, race>>

\* the body of schedule_funeral: its draws, the clock reading and Ok(memorial)
ScheduleRun ==
    /\ funeral.state = "called"
    /\ \E rnd \in FuneralDraws(funeral.funeral_type, ShredRange, Nows) :
          funeral' = [state |-> "returned", user_id |-> funeral.user_id,
                      data_ids |-> funeral.data_ids,
                      funeral_type |-> funeral.funeral_type,
                      now |-> rnd.now,
                      out |-> Ok(schedule_funeral(funeral.user_id, funeral.data_ids,
                                                  funeral.funeral_type, rnd))]
    /\ UNCHANGED <<achievements, mutex, pc, req, loc, resp, started, calls, race>>

\* the caller has taken the schedule
ScheduleReturn ==
    /\ funeral.state = "returned"
    /\ funeral' = FuneralIdle
    /\ UNCHANGED <<achievements, mutex, pc, req, loc, resp, started, calls, race>>

-----------------------------------------------------------------------------
(* encryption_race *)

\* the participants a race may be called with
Racers ==
    {[name |-> "a", encryption_speed |-> 1, vehicle |-> "car", trash_talk |-> "slow"],
     [name |-> "b", encryption_speed |-> 1, vehicle |-> "bike", trash_talk |-> "slower"],
     [name |-> "c", encryption_speed |-> 2, vehicle |-> "ufo", trash_talk |-> ""]}
DataSizes == {0, 3}

\* what the race draws per participant: gen_range(0.8..1.2) in hundredths and
\* the index of the victory cry
RaceDraws == [mult : {80, 100, 119}, cry : {0, 5}]

SeqsUpTo(S, n) == UNION {[1..k -> S] : k \in 0..n}

\* (data_size as f64 / (encryption_speed * multiplier)) * 1000.0, as u64
time_ms(participant, data_size, mult) ==
    (data_size * 1000 * 100) \div (participant.encryption_speed * mult)

\* InsertByKey putting an element before the elements of equal key
InsertByKey_BeforeEqual(sorted, r) ==
    LET k == Cardinality({i \in 1..Len(sorted) : sorted[i].time_ms < r.time_ms})
    IN  SubSeq(sorted, 1, k) \o <<r>> \o SubSeq(sorted, k + 1, Len(sorted))

\* InsertByKey dropping an element whose key is already there
InsertByKey_DropEqual(sorted, r) ==
    LET k == Cardinality({i \in 1..Len(sorted) : sorted[i].time_ms <= r.time_ms})
    IN  IF \E i \in 1..Len(sorted) : sorted[i].time_ms = r.time_ms
        THEN sorted
        ELSE SubSeq(sorted, 1, k) \o <<r>> \o SubSeq(sorted, k + 1, Len(sorted))

\* results.sort_by_key(|r| r.time_ms): a stable sort; each element goes behind
\* the elements whose key is not greater
InsertByKey(sorted, r) ==
    LET k == Cardinality({i \in 1..Len(sorted) : sorted[i].time_ms <= r.time_ms})
    IN  SubSeq(sorted, 1, k) \o <<r>> \o SubSeq(sorted, k + 1, Len(sorted))

RECURSIVE sort_by_key(_)
sort_by_key(results) ==
    IF results = <<>> THEN <<>>
    ELSE InsertByKey(sort_by_key(SubSeq(results, 1, Len(results) - 1)),
                     results[Len(results)])

\* one pass of the loop of lines 427-438: the result of one participant
RaceResult(participant, data_size, d) ==
    [name |-> participant.name,
     time_ms |-> time_ms(participant, data_size, d.mult),
     vehicle |-> participant.vehicle,
     victory_cry |-> d.cry]

\* lines 440-446: the sort and the result; results[0] of an empty Vec panics
RaceOutcome(results) ==
    LET sorted == sort_by_key(results)
    IN  IF sorted = <<>>
        THEN [panic |-> TRUE,
              message |-> "index out of bounds: the len is 0 but the index is 0"]
        ELSE [panic |-> FALSE,
              value |-> Ok([winner |-> sorted[1].name,
                            results |-> sorted,
                            prize |-> "A golden encryption key (decorative only)"])]

\* encryption_race is called; it shares no state with the engine
RaceCall(participants, data_size) ==
    /\ race.state = "idle"
    /\ race' = [state |-> "loop", participants |-> participants,
                data_size |-> data_size, results |-> <<>>]
    /\ UNCHANGED <<achievements, mutex, pc, req, loc, resp, started, calls, funeral>>

\* the loop takes the next participant and pushes its result
RaceLoop(d) ==
    /\ race.state = "loop"
    /\ Len(race.results) < Len(race.participants)
    /\ race' = [race EXCEPT !.results =
                   Append(@, RaceResult(race.participants[Len(race.results) + 1],
                                        race.data_size, d))]
    /\ UNCHANGED <<achievements, mutex, pc, req, loc, resp, started, calls, funeral>>

\* the loop is over: unsorted keeps the loop's results as they were pushed
RaceFinish ==
    /\ race.state = "loop"
    /\ Len(race.results) = Len(race.participants)
    /\ race' = [state |-> "returned", participants |-> race.participants,
                data_size |-> race.data_size, unsorted |-> race.results,
                out |-> RaceOutcome(race.results)]
    /\ UNCHANGED <<achievements, mutex, pc, req, loc, resp, started, calls, funeral>>

\* the caller has taken the result
RaceReturn ==
    /\ race.state = "returned"
    /\ race' = RaceIdle
    /\ UNCHANGED <<achievements, mutex, pc, req, loc, resp, started, calls, funeral>>

-----------------------------------------------------------------------------
(* Specifications *)

\* the tags the clients of the concurrent server send
ServerLevelTags == {"basic", "premium", "quantum", "xyz"}
ServerFuneralTags == {"viking", "space", "pirate"}

\* the steps of worker p, which accepts at most `bound` requests, with tags
\* out of levelTags and funeralTags
Steps(p, bound, levelTags, funeralTags) ==
    \/ \E client \in Clients, tag \in levelTags : EncryptRequest(p, client, tag, bound)
    \/ \E mourner \in Mourners, tag \in funeralTags :
          FuneralRequest(p, mourner, tag, bound)
    \/ EncryptLock(p)
    \/ EncryptCipher(p)
    \/ CheckAchievements(p)
    \/ EncryptFinish(p)
    \/ FuneralLock(p)
    \/ FuneralSchedule(p)

\* the server: the workers handle requests concurrently on the shared engine
Next == \E p \in Workers : Steps(p, MaxRequests, ServerLevelTags, ServerFuneralTags)

Spec == Init /\ [][Next]_vars

\* one caller: a sequence of calls on one engine, each finished before the next
NextSeq == Steps(1, MaxCalls, LevelTags, FuneralTags)

SpecSeq == Init /\ [][NextSeq]_vars

\* the race, called with every participant list up to MaxParticipants
NextRace ==
    \/ \E participants \in SeqsUpTo(Racers, MaxParticipants), data_size \in DataSizes :
          RaceCall(participants, data_size)
    \/ \E d \in RaceDraws : RaceLoop(d)
    \/ RaceFinish
    \/ RaceReturn

SpecRace == Init /\ [][NextRace]_vars

\* calls of one caller who uses all three operations
MaxMixCalls == 2
\* the tags and the races of that caller
MixLevelTags == {"basic", "quantum"}
MixFuneralTags == {"space", "pirate"}
MixRaces == {<<r>> : r \in Racers}

\* one caller: transforms, funerals and races in any order
NextMix ==
    \/ Steps(1, MaxMixCalls, MixLevelTags, MixFuneralTags)
    \/ \E participants \in MixRaces, data_size \in DataSizes :
          RaceCall(participants, data_size)
    \/ \E d \in RaceDraws : RaceLoop(d)
    \/ RaceFinish
    \/ RaceReturn

SpecMix == Init /\ [][NextMix]_vars

\* schedule_funeral with every funeral type, id list and draw
NextFuneral ==
    \/ \E user_id \in UserIds, data_ids \in DataIdLists, funeral_type \in FuneralTypes :
          ScheduleCall(user_id, data_ids, funeral_type)
    \/ ScheduleRun
    \/ ScheduleReturn

SpecFuneral == Init /\ [][NextFuneral]_vars

-----------------------------------------------------------------------------
(* The claims *)

Successful(outcome) == outcome \in {"achievement", "no_achievement"}

\* worker p has answered an encrypt request / answered it with a result
EncryptAnswered(p) ==
    pc[p] = "idle" /\ req[p].kind = "encrypt" /\ resp[p].kind = "encrypt"
EncryptOk(p) == EncryptAnswered(p) /\ resp[p].success

\* worker p is between the lookup and the insert of check_achievements, and
\* its lookup did not find the key of its level
ObservedNotGranted(p) == pc[p] = "e_grant" /\ ~loc[p].found

\* C1: on one engine, for every level the first successful transform carries
\* the achievement label and every later successful transform at that level
\* carries none; a fresh engine has granted no level.
C1_FirstTransformUnlocksOnce ==
    /\ started = 0 => achievements = {}
    /\ \A l \in EncryptionLevel :
          LET s == SelectSeq(calls[l], Successful)
          IN  \A i \in 1..Len(s) : (s[i] = "achievement") <=> (i = 1)

C3_NoLockAcrossDelay ==
    \A p \in Workers : pc[p] = "e_sleep" => mutex # p

\* C4: after a call at a level not yet granted has failed in the Cipher Unit,
\* the next successful transform at that level still receives the
\* achievement.
C4_FailedCallLeavesGrant ==
    \A l \in EncryptionLevel : \A i \in 1..Len(calls[l]) :
       (\A k \in 1..i : calls[l][k] = "cipher_error")
          => \A j \in (i + 1)..Len(calls[l]) :
                (/\ Successful(calls[l][j])
                 /\ \A m \in (i + 1)..(j - 1) : ~Successful(calls[l][m]))
                   => calls[l][j] = "achievement"

\* the 7 level tags and the level each names; a tag in lower case
KnownLevelTags ==
    {"basic", "premium", "paranoid", "tinfoil", "quantum", "alien", "eldritch"}
LevelOfTag(tag) ==
    CASE tag = "basic"    -> "Basic"
      [] tag = "premium"  -> "Premium"
      [] tag = "paranoid" -> "Paranoid"
      [] tag = "tinfoil"  -> "Tinfoil"
      [] tag = "quantum"  -> "Quantum"
      [] tag = "alien"    -> "Alien"
      [] tag = "eldritch" -> "Eldritch"
ToLower(tag) == IF tag = "Premium" THEN "premium" ELSE tag

\* the level the engine ran for the request worker p has answered with a result
RanLevel(p) == resp[p].data.message[2]

\* the per-level counts of artifact labels, as claimed and as amended
ClaimedArtifactCount(level) ==
    CASE level \in {"Basic", "Premium", "Eldritch"} -> 2
      [] level \in {"Paranoid", "Tinfoil", "Alien"} -> 3
      [] level = "Quantum" -> 4
ArtifactCount(level) ==
    CASE level \in {"Basic", "Premium"} -> 2
      [] level \in {"Paranoid", "Tinfoil", "Alien", "Eldritch"} -> 3
      [] level = "Quantum" -> 4
FixedArtifacts(level) ==
    CASE level = "Basic"    -> BasicElements
      [] level = "Premium"  -> PremiumElements
      [] level = "Paranoid" -> ParanoidElements
      [] level = "Tinfoil"  -> TinfoilElements
      [] level = "Quantum"  -> QuantumElements
      [] level = "Alien"    -> AlienElements
      [] level = "Eldritch" -> EldritchElements

\* C5 as claimed: the artifact list of every result has the length of the
\* per-level table with 2 labels for Eldritch.
C5_ArtifactCountsAsClaimed ==
    \A p \in Workers :
       EncryptOk(p) =>
          Len(resp[p].data.theatrical_elements) = ClaimedArtifactCount(RanLevel(p))

\* C5, amended: for every level, plaintext and user id, and whatever calls
\* came before, the artifact list is the level's fixed labels in their order:
\* Basic 2, Premium 2, Paranoid 3, Tinfoil 3, Quantum 3 and one of the two
\* coin labels, Alien 3, Eldritch 3.
C5_ArtifactTable ==
    \A p \in Workers :
       EncryptOk(p) =>
          LET e == resp[p].data.theatrical_elements
              l == RanLevel(p)
          IN  /\ Len(e) = ArtifactCount(l)
              /\ l # "Quantum" => e = FixedArtifacts(l)
              /\ l = "Quantum" =>
                    /\ SubSeq(e, 1, 3) = FixedArtifacts(l)
                    /\ e[4] \in {"Data is encrypted AND decrypted!",
                                 "Data collapsed into encrypted state"}

\* C5 witness: the third call on the engine returns an Eldritch result with
\* 3 labels, for the non-empty plaintext
C5_Witness ==
    /\ started = 3
    /\ EncryptOk(1)
    /\ RanLevel(1) = "Eldritch"
    /\ req[1].data # <<>>
    /\ Len(resp[1].data.theatrical_elements) = 3

\* C6: a request with a tag that is none of the 7 level tags is processed as
\* a Basic request: it runs at level Basic, the handler adds no error of its
\* own, and its result has the 2 Basic artifacts and 100 points, with the
\* Basic achievement key in the registry.
C6_UnknownTagIsBasic ==
    \A p \in Workers :
       (req[p].kind = "encrypt" /\ ToLower(req[p].level) \notin KnownLevelTags) =>
          /\ pc[p] # "idle" => loc[p].level = "Basic"
          /\ (EncryptAnswered(p) /\ ~resp[p].success) =>
                resp[p].error \in {"Key derivation failed", "Encryption failed",
                                   "second time provided was later than self"}
          /\ EncryptOk(p) =>
                /\ RanLevel(p) = "Basic"
                /\ resp[p].data.theatrical_elements =
                      <<"Applied ROT13 (just kidding)", "Added blockchain dust">>
                /\ resp[p].data.points_earned = 100
                /\ <<"Basic", "_first">> \in achievements

\* C6 witness: the request tagged "xyz" has been answered with a result
C6_Witness ==
    \E p \in Workers : EncryptOk(p) /\ req[p].level = "xyz"

\* C7 as claimed: a tag selects the level its lower-case spelling names.
C7_TagsIgnoreCase ==
    \A p \in Workers :
       (req[p].kind = "encrypt" /\ ToLower(req[p].level) \in KnownLevelTags) =>
          /\ pc[p] # "idle" => loc[p].level = LevelOfTag(ToLower(req[p].level))
          /\ EncryptOk(p) => RanLevel(p) = LevelOfTag(ToLower(req[p].level))

\* C7, amended: the tag is matched exactly: each of the 7 lower-case tags
\* selects its level, and a spelling of a tag in any other case (such as
\* "Premium") selects the Basic fallback.
C7_TagsMatchExactly ==
    \A p \in Workers :
       (req[p].kind = "encrypt" /\ ToLower(req[p].level) \in KnownLevelTags) =>
          LET level == IF req[p].level \in KnownLevelTags
                       THEN LevelOfTag(req[p].level) ELSE "Basic"
          IN  /\ pc[p] # "idle" => loc[p].level = level
              /\ EncryptOk(p) => RanLevel(p) = level

\* C7 witness: the request tagged "Premium" has been answered with a Basic
\* result
C7_Witness ==
    \E p \in Workers :
       EncryptOk(p) /\ req[p].level = "Premium" /\ resp[p].data.points_earned = 100

\* worker p has answered a funeral request
FuneralAnswered(p) ==
    pc[p] = "idle" /\ req[p].kind = "funeral" /\ resp[p].kind = "funeral"
KnownFuneralTags == {"viking", "space", "quantum", "eldritch"}

\* C8 as claimed: a funeral request with an unknown tag is scheduled as the
\* Viking funeral of the tag "viking": longboat 50, arrows 100, 35 passes.
C8_UnknownFuneralIsVikingDefault ==
    \A p \in Workers :
       (FuneralAnswered(p) /\ req[p].funeral_type \notin KnownFuneralTags) =>
          /\ resp[p].success
          /\ resp[p].data.funeral_type =
                [variant |-> "Viking", longboat_size |-> 50, burning_arrows |-> 100]
          /\ resp[p].data.shred_passes = 35
          /\ SubSeq(resp[p].data.epitaph, 2, 4) = <<Len(req[p].data_ids) * 1024, 50, 100>>

\* C8, amended: a funeral request with an unknown tag is not an error: it is
\* scheduled as a Viking funeral with 35 shred passes, with the fallback's own
\* parameters, longboat 30 and arrows 50, which its epitaph interpolates.
C8_UnknownFuneralIsVikingFallback ==
    \A p \in Workers :
       (req[p].kind = "funeral" /\ req[p].funeral_type \notin KnownFuneralTags) =>
          /\ pc[p] # "idle" => loc[p].funeral_type.variant = "Viking"
          /\ FuneralAnswered(p) =>
                /\ resp[p].success
                /\ resp[p].data.funeral_type =
                      [variant |-> "Viking", longboat_size |-> 30, burning_arrows |-> 50]
                /\ resp[p].data.shred_passes = 35
                /\ SubSeq(resp[p].data.epitaph, 2, 4) =
                      <<Len(req[p].data_ids) * 1024, 30, 50>>

\* C8 witness: the funeral request tagged "pirate" has been answered
C8_Witness ==
    \E p \in Workers : FuneralAnswered(p) /\ req[p].funeral_type = "pirate"

\* C9: a race called with no participants returns an InvalidInputError to the
\* caller; it does not panic.
C9_EmptyRaceIsInvalidInput ==
    (race.state = "returned" /\ race.participants = <<>>) =>
       /\ ~race.out.panic
       /\ ~race.out.value.ok
       /\ race.out.value.error = "InvalidInputError"

\* the results of a returned race that did not panic
RaceResults == race.out.value.value.results
WithTime(results, t) == SelectSeq(results, LAMBDA r : r.time_ms = t)

\* C10: for every non-empty participant list and all draws, the results are
\* in non-decreasing order of time_ms, results of equal time_ms are in their
\* input order, and the winner is the name of the first result.
C10_RaceIsStablySorted ==
    (race.state = "returned" /\ race.participants # <<>>) =>
       /\ ~race.out.panic /\ race.out.value.ok
       /\ \A i \in 1..(Len(RaceResults) - 1) :
             RaceResults[i].time_ms <= RaceResults[i + 1].time_ms
       /\ \A i \in 1..Len(race.unsorted) :
             WithTime(RaceResults, race.unsorted[i].time_ms) =
                WithTime(race.unsorted, race.unsorted[i].time_ms)
       /\ race.out.value.value.winner = RaceResults[1].name

\* C10 witness: a race of three where the sort moved the last participant to
\* the front and the two others tie with different names
C10_Witness ==
    /\ race.state = "returned"
    /\ Len(race.unsorted) = 3
    /\ race.unsorted[1].time_ms = race.unsorted[2].time_ms
    /\ race.unsorted[1].name # race.unsorted[2].name
    /\ race.unsorted[3].time_ms < race.unsorted[1].time_ms
    /\ race.data_size > 0

\* worker p is inside encrypt_with_drama, past the match on the level
AfterComposition(p) == pc[p] \in {"e_check", "e_grant"}

\* the parts of a blob of the Cipher Unit
BlobSalt(blob) == blob[1]
BlobNonce(blob) == blob[2]
BlobKeySalt(blob) == blob[3][2][4]
BlobAeadNonce(blob) == blob[3][3]
BlobPlaintext(blob) == blob[3][4]

\* the blob was made with the salt and the nonce of the draw d
UsesDraw(blob, d) ==
    /\ BlobSalt(blob) = d.salt /\ BlobKeySalt(blob) = d.salt
    /\ BlobNonce(blob) = d.nonce /\ BlobAeadNonce(blob) = d.nonce

\* the blob of the level's last Cipher Unit call inside encrypted_data, and
\* the blob of Premium's first call inside the plaintext of its second
LastBlob(level, encrypted_data) ==
    IF level = "Tinfoil" THEN encrypted_data[2][2] ELSE encrypted_data
FirstBlobOfPremium(encrypted_data) == BlobPlaintext(encrypted_data)[2]

\* C11: every Cipher Unit call makes its blob with the salt and the nonce it
\* drew itself from the random source: the salt in the layout is the salt the
\* key was derived with, the nonce in the layout is the nonce of the AEAD, and
\* the second call of Premium uses its own draw while the blob of the first,
\* inside its plaintext, keeps the first draw.
C11_FreshSaltAndNonce ==
    \A p \in Workers :
       AfterComposition(p) =>
          LET last == LastBlob(loc[p].level, loc[p].encrypted_data)
          IN  IF loc[p].level = "Premium"
              THEN /\ UsesDraw(last, loc[p].rnd.d2)
                   /\ UsesDraw(FirstBlobOfPremium(last), loc[p].rnd.d1)
              ELSE UsesDraw(last, loc[p].rnd.d1)

\* C11 witness: a Premium call whose two Cipher Unit calls drew different
\* salts and different nonces
C11_Witness ==
    \E p \in Workers :
       /\ AfterComposition(p)
       /\ loc[p].level = "Premium"
       /\ loc[p].rnd.d1.salt # loc[p].rnd.d2.salt
       /\ loc[p].rnd.d1.nonce # loc[p].rnd.d2.nonce
       /\ BlobSalt(loc[p].encrypted_data) #
             BlobSalt(FirstBlobOfPremium(loc[p].encrypted_data))

\* a call at level l has gone through check_achievements
Checked(l) == \E i \in 1..Len(calls[l]) : calls[l][i] # "cipher_error"

\* C12: funerals and races leave the registry alone: whatever funerals and
\* races were interleaved, the registry holds exactly the keys of the levels
\* whose transforms went through check_achievements, and what the next
\* transform at a level finds there depends on the earlier transforms at that
\* level only.
C12_OnlyTransformsTouchRegistry ==
    /\ achievements = {achievement_key(l) : l \in {k \in EncryptionLevel : Checked(k)}}
    /\ \A p \in Workers :
          pc[p] = "e_grant" => (loc[p].found <=> Checked(loc[p].level))

\* C12 witness: a funeral was scheduled and a race was run, and the transform
\* that came after them, the first of its level, received the achievement
C12_Witness ==
    /\ started = 2
    /\ race.state = "returned"
    /\ EncryptOk(1)
    /\ resp[1].data.achievement_unlocked.some
    /\ \A l \in EncryptionLevel : Len(calls[l]) = (IF l = RanLevel(1) THEN 1 ELSE 0)

\* schedule_funeral has returned; the schedule it returned
Scheduled == funeral.state = "returned"
Schedule == funeral.out.value

\* C13: the shred-pass count of every schedule is that of its variant: Viking
\* 35, Eldritch 666, Quantum 0 or 999, Space at least 1 and at most 99.
C13_ShredPassesByVariant ==
    Scheduled =>
       /\ funeral.out.ok
       /\ CASE funeral.funeral_type.variant = "Viking"   -> Schedule.shred_passes = 35
            [] funeral.funeral_type.variant = "Eldritch" -> Schedule.shred_passes = 666
            [] funeral.funeral_type.variant = "Quantum"  -> Schedule.shred_passes \in {0, 999}
            [] funeral.funeral_type.variant = "Space"    ->
                  /\ Schedule.shred_passes >= 1
                  /\ Schedule.shred_passes < 100

\* C13 witness: a Space funeral with the largest count, 99
C13_Witness ==
    /\ Scheduled
    /\ funeral.funeral_type.variant = "Space"
    /\ Schedule.shred_passes = 99

\* C14: the epitaph of a Viking funeral of n ids interpolates exactly the
\* three values n * 1024, longboat_size and burning_arrows, whatever the user
\* id and the draws.
C14_VikingEpitaph ==
    (Scheduled /\ funeral.funeral_type.variant = "Viking") =>
       /\ Len(Schedule.epitaph) = 4
       /\ SubSeq(Schedule.epitaph, 2, 4) =
             <<Len(funeral.data_ids) * 1024, funeral.funeral_type.longboat_size,
               funeral.funeral_type.burning_arrows>>

\* C14 witness: 3 ids with Viking{50,100} give 3072, 50 and 100
C14_Witness ==
    /\ Scheduled
    /\ funeral.data_ids = <<"a", "b", "c">>
    /\ funeral.funeral_type = Viking(50, 100)
    /\ SubSeq(Schedule.epitaph, 2, 4) = <<3072, 50, 100>>

\* the id lists of another length than the list of the returned schedule
OtherLengths == {ids \in DataIdLists : Len(ids) # Len(funeral.data_ids)}

\* C15 as claimed: for every variant, a schedule of the same variant and
\* fields for an id list of another length has another epitaph.
C15_EpitaphTellsLength ==
    Scheduled =>
       \A ids \in OtherLengths : Epitaph(ids, funeral.funeral_type) # Schedule.epitaph

\* C15, amended: the epitaph is the template of the variant with the
\* variant's own fields, whatever the draws; only the Viking template
\* interpolates the list (as its length times 1024), so only Viking epitaphs
\* differ with the length of the list: for Space, Quantum and Eldritch the
\* epitaph is the same for every list.
C15_OnlyVikingTellsLength ==
    Scheduled =>
       /\ Schedule.epitaph = Epitaph(funeral.data_ids, funeral.funeral_type)
       /\ \A ids \in OtherLengths :
             (Epitaph(ids, funeral.funeral_type) # Schedule.epitaph)
                <=> (funeral.funeral_type.variant = "Viking")

\* C15 witness: a Space funeral of 3 ids whose epitaph is that of no ids
C15_Witness ==
    /\ Scheduled
    /\ funeral.funeral_type.variant = "Space"
    /\ Len(funeral.data_ids) = 3
    /\ Schedule.epitaph = Epitaph(<<>>, funeral.funeral_type)

\* C16: every schedule, of every variant, is for the clock reading of its
\* creation plus 86400 seconds, and returns the user id, the ids and the
\* funeral type it was given; the call returns the record and leaves the
\* engine as it was.
C16_ScheduledOneDayAhead ==
    Scheduled =>
       /\ funeral.out.ok
       /\ Schedule.scheduled_time = funeral.now + 86400
       /\ Schedule.data_ids = funeral.data_ids
       /\ Schedule.user_id = funeral.user_id
       /\ Schedule.funeral_type = funeral.funeral_type
       /\ achievements = {}

\* C16 witness: an Eldritch funeral of 3 ids created at 1000 and scheduled
\* for 87400
C16_Witness ==
    /\ Scheduled
    /\ funeral.funeral_type.variant = "Eldritch"
    /\ funeral.now = 1000
    /\ Schedule.scheduled_time = 87400
    /\ Schedule.data_ids = <<"a", "b", "c">>

\* C17: the result of a successful run carries the bytes the level's
\* composition computed (encrypted_data), next to the artifact list.
C17_ResultCarriesBlob ==
    \A p \in Workers :
       EncryptOk(p) =>
          /\ "theatrical_elements" \in DOMAIN resp[p].data
          /\ "encrypted_data" \in DOMAIN resp[p].data

\* the base delays in ms, as claimed
ClaimedDelay(level) ==
    CASE level = "Basic"    -> 100
      [] level = "Premium"  -> 500
      [] level = "Paranoid" -> 1000
      [] level = "Tinfoil"  -> 2000
      [] level = "Quantum"  -> 3000
      [] level = "Alien"    -> 4000
      [] level = "Eldritch" -> 6666

\* C18: a run suspends first, for the base delay of its level times the drama
\* multiplier; while it is suspended it has built no password, called no
\* Cipher Unit and made no lookup, and the registry holds what the earlier
\* calls left; the password, the blob and the lookup exist only after it.
C18_SuspensionComesFirst ==
    \A p \in Workers :
       /\ pc[p] = "e_sleep" =>
             /\ loc[p].sleep_ms = ClaimedDelay(loc[p].level) * drama_factor
             /\ DOMAIN loc[p] \cap {"password", "encrypted_data", "rnd", "found"} = {}
             /\ achievement_key(loc[p].level) \in achievements <=> Checked(loc[p].level)
       /\ AfterComposition(p) =>
             /\ loc[p].password =
                   generate_theatrical_password(req[p].user_id, loc[p].level)
             /\ "encrypted_data" \in DOMAIN loc[p]
       /\ "found" \in DOMAIN loc[p] => pc[p] = "e_grant"

\* C18 witness: the first Eldritch run is suspended for 6666 ms and nothing
\* of it is in the registry
C18_Witness ==
    \E p \in Workers :
       /\ pc[p] = "e_sleep"
       /\ loc[p].level = "Eldritch"
       /\ loc[p].sleep_ms = 6666
       /\ achievement_key("Eldritch") \notin achievements

\* C19: at the Quantum level the fourth label tells what was encrypted: "Data
\* is encrypted AND decrypted!" exactly when the plaintext went in as it is,
\* "Data collapsed into encrypted state" exactly when it went in behind the
\* marker "QUANTUM:"; the label is one of the two and follows the 3 fixed
\* labels.
C19_QuantumLabelTellsTransform ==
    \A p \in Workers :
       (AfterComposition(p) /\ loc[p].level = "Quantum") =>
          LET e == loc[p].theatrical_elements
              plaintext == BlobPlaintext(loc[p].encrypted_data)
          IN  /\ Len(e) = 4
              /\ SubSeq(e, 1, 3) =
                    <<"Quantum entangled with parallel universe",
                      "Schroedinger's encryption applied", "Observed by quantum cats">>
              /\ e[4] \in {"Data is encrypted AND decrypted!",
                            "Data collapsed into encrypted state"}
              /\ (e[4] = "Data is encrypted AND decrypted!") <=> (plaintext = req[p].data)
              /\ (e[4] = "Data collapsed into encrypted state")
                    <=> (plaintext = <<"QUANTUM:">> \o req[p].data)

\* C19 witness: both outcomes on one engine: one Quantum request has been
\* answered with the one label, and the run of another has encrypted behind
\* the marker and carries the other
C19_Witness ==
    \E p, q \in Workers :
       /\ EncryptOk(p) /\ RanLevel(p) = "Quantum"
       /\ resp[p].data.theatrical_elements[4] = "Data is encrypted AND decrypted!"
       /\ AfterComposition(q) /\ loc[q].level = "Quantum"
       /\ loc[q].theatrical_elements[4] = "Data collapsed into encrypted state"
       /\ BlobPlaintext(loc[q].encrypted_data) = <<"QUANTUM:">> \o req[q].data

\* the keys the registry can hold
AchievementKeys == {achievement_key(l) : l \in EncryptionLevel}

\* C20: the registry is keyed by the level alone: the lookup of a run finds
\* its level's key exactly when that key is in the registry, whoever the user
\* is and whatever other levels hold; of two results at one level at most one
\* carries the achievement, also for two different users; the registry holds
\* level keys only, at most 7, and keeps the key of every level a run has put
\* there.
C20_RegistryKeyedByLevel ==
    /\ achievements \subseteq AchievementKeys
    /\ Cardinality(achievements) <= 7
    /\ \A l \in EncryptionLevel : Checked(l) => achievement_key(l) \in achievements
    /\ \A p \in Workers :
          pc[p] = "e_grant" =>
             (loc[p].found <=> achievement_key(loc[p].level) \in achievements)
    /\ \A p, q \in Workers :
          (p # q /\ EncryptOk(p) /\ EncryptOk(q) /\ RanLevel(p) = RanLevel(q)) =>
             ~(resp[p].data.achievement_unlocked.some /\ resp[q].data.achievement_unlocked.some)

\* C20 witness: two users at one level: the first transform of the one
\* received the achievement, the first transform of the other received none,
\* and a level nobody has used is still to be granted
C20_Witness ==
    \E p, q \in Workers :
       /\ EncryptOk(p) /\ EncryptOk(q)
       /\ req[p].user_id # req[q].user_id
       /\ RanLevel(p) = RanLevel(q)
       /\ resp[p].data.achievement_unlocked.some
       /\ ~resp[q].data.achievement_unlocked.some
       /\ achievements = {achievement_key(RanLevel(p))}

\* how many elements of a sequence carry the name and the vehicle of racer r
CountOf(seq, r) ==
    Cardinality({i \in 1..Len(seq) : seq[i].name = r.name /\ seq[i].vehicle = r.vehicle})

\* C21: for every non-empty participant list the race returns one result per
\* participant: the results are as many as the participants, every
\* (name, vehicle) of the input occurs in the results as often as in the
\* input, the loop's i-th result is that of the i-th participant, and the
\* winner is the name of a participant.
C21_ResultsPermuteParticipants ==
    (race.state = "returned" /\ race.participants # <<>>) =>
       /\ ~race.out.panic /\ race.out.value.ok
       /\ Len(RaceResults) = Len(race.participants)
       /\ \A r \in Racers : CountOf(RaceResults, r) = CountOf(race.participants, r)
       /\ \A i \in 1..Len(RaceResults) :
             \E r \in Racers : RaceResults[i].name = r.name /\ RaceResults[i].vehicle = r.vehicle
       /\ \A i \in 1..Len(race.participants) :
             /\ race.unsorted[i].name = race.participants[i].name
             /\ race.unsorted[i].vehicle = race.participants[i].vehicle
       /\ \E i \in 1..Len(race.participants) :
             race.out.value.value.winner = race.participants[i].name

\* C21 witness: a race of three with one participant entered twice, both
\* with the same time, where the sort put the third participant first: the
\* results hold the name entered twice two times
C21_Witness ==
    /\ race.state = "returned"
    /\ Len(race.participants) = 3
    /\ race.participants[1] = race.participants[2]
    /\ race.participants[3] # race.participants[1]
    /\ race.unsorted[1].time_ms = race.unsorted[2].time_ms
    /\ RaceResults[1].name = race.participants[3].name
    /\ RaceResults[2].name = race.participants[1].name
    /\ RaceResults[3].name = race.participants[1].name

=============================================================================
